---- MODULE Spec2Model ----
(***************************************************************************)
(* Model of main.py of Aretrails2Wikidata: one run of the script fetches   *)
(* the trail catalogue, parses it into TrailItem records, prints nine      *)
(* counts over the filtered views of AreTrailsData and exports the trails  *)
(* to trails.csv.                                                          *)
(*                                                                         *)
(* Python values are tagged records (null, bool, num, str, map).  A str is *)
(* a sequence of one-character strings so that the substring test `in` is  *)
(* computed, a num is a fixed-point number in tenths of a unit so that     *)
(* int(float(x)) truncates something.  A property or method either returns *)
(* a value, Ok(v), or raises, Err(exception class).                        *)
(***************************************************************************)
EXTENDS Integers, Sequences, FiniteSets, TLC

\* Longest "items" array of a fetched payload.
MaxItems == 2

----------------------------------------------------------------------------
\* Python values and the few built-in operations main.py applies to them.

Null == [t |-> "null"]
Bool(b) == [t |-> "bool", b |-> b]
Num(n) == [t |-> "num", n |-> n]
Str(s) == [t |-> "str", s |-> s]
Map(m) == [t |-> "map", m |-> m]
EmptyDict == Map([k \in {} |-> Null])
EmptyStr == Str(<<>>)

Ok(v) == [ok |-> TRUE, v |-> v]
Err(e) == [ok |-> FALSE, exc |-> e]

\* bool(v), as `if v:` and `and` evaluate it.
Truthy(v) ==
    CASE v.t = "null" -> FALSE
      [] v.t = "bool" -> v.b
      [] v.t = "num" -> v.n # 0
      [] v.t = "str" -> Len(v.s) > 0
      [] v.t = "map" -> DOMAIN v.m # {}

\* v.get(k, d): only a dict has the method.
DictGet(v, k, d) ==
    IF v.t # "map" THEN Err("AttributeError")
    ELSE IF k \in DOMAIN v.m THEN Ok(v.m[k]) ELSE Ok(d)

\* v[k] with a string key k.
Subscript(v, k) ==
    IF v.t # "map" THEN Err("TypeError")
    ELSE IF k \in DOMAIN v.m THEN Ok(v.m[k]) ELSE Err("KeyError")

\* v == {} and v != {}
EqEmptyDict(v) == v.t = "map" /\ DOMAIN v.m = {}
NeEmptyDict(v) == ~EqEmptyDict(v)

\* sub occurs in s as a contiguous run of characters.
Contains(sub, s) ==
    \E i \in 0..(Len(s) - Len(sub)) : SubSeq(s, i + 1, i + Len(sub)) = sub

\* `sub in v` for a str literal sub; the keys drawn below are str or None.
StrIn(sub, v) ==
    IF v.t = "str" THEN Ok(Contains(sub, v.s)) ELSE Err("TypeError")

\* int(float(v)) of a truthy v: the part before the decimal point, towards 0.
\* The distances drawn below are numbers, booleans, None or absent.
IntFloat(v) ==
    CASE v.t = "num" -> Ok(IF v.n >= 0 THEN v.n \div 10 ELSE -((-v.n) \div 10))
      [] v.t = "bool" -> Ok(IF v.b THEN 1 ELSE 0)
      [] OTHER -> Err("TypeError")

----------------------------------------------------------------------------
\* The string literals of the has_*_activity predicates.

Running == <<"r", "u", "n", "n", "i", "n", "g">>
Riding == <<"r", "i", "d", "i", "n", "g">>
Hiking == <<"h", "i", "k", "i", "n", "g">>
Bicycle == <<"b", "i", "c", "y", "c", "l", "e">>
Gravel == <<"g", "r", "a", "v", "e", "l">>

----------------------------------------------------------------------------
\* TrailItem: the pydantic model and its properties.

RequiredFields == {"id", "objectClass", "networkId"}

\* TrailItem(**raw) validates.
Constructible(raw) == RequiredFields \subseteq DOMAIN raw

\* The instance TrailItem(**raw) of a raw element that validates.
TrailItem(raw) ==
    [id |-> raw.id, objectClass |-> raw.objectClass, content |-> raw.content,
     properties |-> raw.properties, networkId |-> raw.networkId]

network_id(item) == item.networkId

class_(item) == item.objectClass

activity(item) ==
    IF Truthy(item.content)
    THEN DictGet(item.content, "activity", EmptyDict)
    ELSE Err("ValueError")

activity_key(item) ==
    LET a == activity(item) IN
    IF ~a.ok THEN a
    ELSE IF Truthy(a.v) THEN DictGet(a.v, "key", EmptyStr) ELSE Ok(EmptyStr)

has_running_activity(item) ==
    LET k == activity_key(item) IN IF ~k.ok THEN k ELSE StrIn(Running, k.v)

has_riding_activity(item) ==
    LET k == activity_key(item) IN IF ~k.ok THEN k ELSE StrIn(Riding, k.v)

has_hike_activity(item) ==
    LET k == activity_key(item) IN IF ~k.ok THEN k ELSE StrIn(Hiking, k.v)

\* What the condition was presumably meant to be:
\* "bicycle" in activity_key or "gravel" in activity_key.
has_bike_activity_substring(item) ==
    LET k == activity_key(item) IN
    IF ~k.ok THEN k
    ELSE IF k.v.t # "str" THEN Err("TypeError")
    ELSE Ok(Contains(Bicycle, k.v.s) \/ Contains(Gravel, k.v.s))

\* `"bicycle" or "gravel" in self.activity_key`: the left operand of `or` is
\* the literal itself; activity_key is read only when the literal is falsy.
has_bike_activity(item) ==
    IF Truthy(Str(Bicycle)) THEN Ok(TRUE)
    ELSE LET k == activity_key(item) IN
         IF ~k.ok THEN k ELSE StrIn(Gravel, k.v)

is_multitrail(item) == Subscript(item.properties, "isMultiTrail")

url(item) == "https://www.aretrails.com/trail/" \o item.id

title(item) == Subscript(item.content, "title")

length(item) ==
    LET d == Subscript(item.properties, "trailDistanceMeter") IN
    IF ~d.ok THEN d
    ELSE IF Truthy(d.v) THEN IntFloat(d.v) ELSE Ok(0)

number(item) == DictGet(item.properties, "trailNumber", EmptyStr)

gpx_url(item) ==
    "https://func-gaiaplaces-aretrails.azurewebsites.net/api/ContentItem/geo/"
        \o item.id \o "/gpx?networkId=" \o network_id(item) \o "&draft=0&code="

----------------------------------------------------------------------------
\* AreTrailsData: the filtered views, each a list comprehension over items.

\* `r and item.class_ == "trail"`: the accessor is read for every item.
TrailAndEager(item, r) ==
    IF ~r.ok THEN r ELSE Ok(r.v /\ class_(item) = "trail")

\* `item.class_ == "trail" and r`: r, the outcome of the right operand, is
\* looked at only for a trail.
TrailAnd(item, r) ==
    IF class_(item) = "trail" THEN r ELSE Ok(FALSE)

\* Truth value of an accessor's outcome where the comprehension tests it.
Test(r) == IF r.ok THEN Ok(Truthy(r.v)) ELSE r

\* [item for item in s if c]: c[i] is the outcome of the condition for s[i].
\* The first condition that raises ends the comprehension with its exception.
Comprehension(s, c) ==
    IF \E i \in 1..Len(s) : ~c[i].ok
    THEN Err(c[CHOOSE i \in 1..Len(s) :
                  ~c[i].ok /\ \A j \in 1..(i - 1) : c[j].ok].exc)
    ELSE LET kept[k \in 0..Len(s)] ==
                 IF k = 0 THEN <<>>
                 ELSE IF c[k].v THEN Append(kept[k - 1], s[k]) ELSE kept[k - 1]
         IN Ok(kept[Len(s)])

\* The same comprehension without the class test.
all_items(s) == Comprehension(s, [i \in 1..Len(s) |-> Ok(TRUE)])

trails(s) ==
    Comprehension(s, [i \in 1..Len(s) |-> Ok(class_(s[i]) = "trail")])

multitrails(s) ==
    Comprehension(s, [i \in 1..Len(s) |->
        TrailAnd(s[i], Test(is_multitrail(s[i])))])

riding_trails(s) ==
    Comprehension(s, [i \in 1..Len(s) |->
        TrailAnd(s[i], has_riding_activity(s[i]))])

bicycle_trails(s) ==
    Comprehension(s, [i \in 1..Len(s) |->
        TrailAnd(s[i], has_bike_activity(s[i]))])

hiking_trails(s) ==
    Comprehension(s, [i \in 1..Len(s) |->
        TrailAnd(s[i], has_hike_activity(s[i]))])

running_trails(s) ==
    Comprehension(s, [i \in 1..Len(s) |->
        TrailAnd(s[i], has_running_activity(s[i]))])

\* The condition written as `item.activity`, the truth value of the mapping.
trails_with_activity_truthy(s) ==
    Comprehension(s, [i \in 1..Len(s) |->
        TrailAnd(s[i], Test(activity(s[i])))])

trails_with_activity(s) ==
    Comprehension(s, [i \in 1..Len(s) |->
        TrailAnd(s[i], LET a == activity(s[i]) IN
                       IF a.ok THEN Ok(NeEmptyDict(a.v)) ELSE a)])

trails_without_activity(s) ==
    Comprehension(s, [i \in 1..Len(s) |->
        TrailAnd(s[i], LET a == activity(s[i]) IN
                       IF a.ok THEN Ok(EqEmptyDict(a.v)) ELSE a)])

\* a or b, where b is read only when a returned False.
OrElse(a, b) == IF ~a.ok THEN a ELSE IF a.v THEN a ELSE b

\* not a
Not(a) == IF a.ok THEN Ok(~a.v) ELSE a

trails_with_unsupported_activity(s) ==
    Comprehension(s, [i \in 1..Len(s) |->
        TrailAnd(s[i],
            Not(OrElse(has_hike_activity(s[i]),
                OrElse(has_riding_activity(s[i]),
                OrElse(has_bike_activity(s[i]),
                       has_running_activity(s[i]))))))])

----------------------------------------------------------------------------
\* What the server may send: "content" and "properties" payloads on the
\* pattern of the Activity docstring, and raw elements of the "items" array.
\* Every raw element carries a "content" and a "properties" key (either may
\* be null); the three required keys may be missing.

ActivityOf(key) == Map([key |-> Str(key), value |-> Str(<<"v">>)])

KeyHikingEasy == Hiking \o <<"-", "e", "a", "s", "y">>
KeyBicycleDh == Bicycle \o <<"-", "d", "h">>
KeyTrailRunning == <<"t", "r", "a", "i", "l", "-">> \o Running
KeySki == <<"s", "k", "i">>

TitleA == Str(<<"A">>)
TitleComma == Str(<<"B", ",", "C">>)

ContentHike == Map([title |-> TitleA, activity |-> ActivityOf(KeyHikingEasy)])
ContentBike == Map([title |-> TitleComma, activity |-> ActivityOf(KeyBicycleDh)])
ContentRun == Map([title |-> TitleA, activity |-> ActivityOf(KeyTrailRunning)])
ContentRideNoTitle == Map([activity |-> ActivityOf(Riding)])
ContentSki == Map([title |-> TitleA, activity |-> ActivityOf(KeySki)])
ContentNoActivity == Map([title |-> TitleA])
ContentActivityNull == Map([title |-> TitleA, activity |-> Null])
ContentActivityEmpty == Map([title |-> TitleA, activity |-> EmptyDict])
ContentActivityNoKey ==
    Map([title |-> TitleA, activity |-> Map([value |-> Str(<<"v">>)])])
ContentKeyNull ==
    Map([title |-> TitleA, activity |-> Map([key |-> Null])])
ContentText == Str(<<"x">>)

PropsMulti ==
    Map([isMultiTrail |-> Bool(TRUE), trailDistanceMeter |-> Num(35007),
         trailNumber |-> Str(<<"1", "2">>)])
PropsZero == Map([isMultiTrail |-> Bool(FALSE), trailDistanceMeter |-> Num(0)])
PropsDistNull ==
    Map([isMultiTrail |-> Bool(FALSE), trailDistanceMeter |-> Null,
         trailNumber |-> Str(<<"7">>)])
PropsNoDist == Map([isMultiTrail |-> Bool(FALSE)])
PropsNegative ==
    Map([isMultiTrail |-> Bool(TRUE), trailDistanceMeter |-> Num(-15)])

Raw(id, class, content, properties) ==
    [id |-> id, objectClass |-> class, content |-> content,
     properties |-> properties, networkId |-> "n1"]

RawItems ==
    { Raw("t1", "trail", ContentHike, PropsMulti),
      Raw("t2", "trail", ContentBike, PropsZero),
      Raw("t3", "trail", ContentSki, PropsDistNull),
      Raw("t4", "trail", ContentNoActivity, PropsNegative),
      Raw("t5", "trail", ContentActivityNull, PropsMulti),
      Raw("t6", "trail", ContentActivityEmpty, PropsZero),
      Raw("t7", "trail", ContentRun, PropsNoDist),
      Raw("t8", "trail", ContentRideNoTitle, PropsMulti),
      Raw("t9", "trail", Null, PropsMulti),
      Raw("t10", "trail", EmptyDict, PropsZero),
      Raw("t11", "trail", ContentHike, EmptyDict),
      Raw("t12", "trail", ContentHike, Null),
      Raw("t13", "trail", ContentKeyNull, PropsMulti),
      Raw("t14", "trail", ContentText, PropsMulti),
      Raw("t15", "trail", ContentActivityNoKey, PropsZero),
      Raw("p1", "poi", Null, EmptyDict),
      Raw("p2", "poi", ContentHike, PropsMulti),
      Raw("p3", "poi", EmptyDict, Null),
      [objectClass |-> "trail", content |-> ContentHike,
       properties |-> PropsMulti, networkId |-> "n1"],
      [id |-> "x2", content |-> ContentHike,
       properties |-> PropsMulti, networkId |-> "n1"],
      [id |-> "x3", objectClass |-> "trail", content |-> ContentHike,
       properties |-> PropsMulti] }

RawLists == UNION {[1..n -> RawItems] : n \in 0..MaxItems}

List(l) == [t |-> "list", l |-> l]

\* A response: status 0 stands for no response at all (connection refused,
\* timeout); json tells whether the body parses as JSON, to value.
Response(status, json, value) ==
    [status |-> status, json |-> json, value |-> value]

ErrorBodies ==
    {Response(st, FALSE, Null) : st \in {0, 403, 500}}
        \cup {Response(st, TRUE, Map([items |-> List(<<Raw("t1", "trail",
                  ContentHike, PropsMulti)>>)])) : st \in {403, 500}}

Responses ==
    ErrorBodies
        \cup {Response(200, FALSE, Null), Response(200, TRUE, Null),
              Response(200, TRUE, Map([message |-> Str(<<"m">>)]))}
        \cup {Response(200, TRUE, Map([items |-> List(l)])) : l \in RawLists}

----------------------------------------------------------------------------
\* The run of the script.

VARIABLES
    response,   \* what the server answers to the one GET of this run
    oldfile,    \* trails.csv as the run finds it
    pc,         \* the statement of the try block to execute next
    data,       \* atd.data
    items,      \* atd.items
    console,    \* the lines printed so far
    csvfile,    \* trails.csv
    exc         \* the exception raised in the try block, "none" if none

vars == <<response, oldfile, pc, data, items, console, csvfile, exc>>

\* The statements of the try block with the export moved before the counts.
ProgramExportFirst ==
    << "fetch_aretrails_json", "parse_items", "export_trails_to_csv",
       "print_trails", "print_multitrails", "print_hiking_trails",
       "print_bicycle_trails", "print_riding_trails", "print_running_trails",
       "print_trails_without_activity", "print_trails_with_activity",
       "print_trails_with_unsupported_activity" >>

\* The statements of the try block, in the order of the text.
Program ==
    << "fetch_aretrails_json", "parse_items",
       "print_trails", "print_multitrails", "print_hiking_trails",
       "print_bicycle_trails", "print_riding_trails", "print_running_trails",
       "print_trails_without_activity", "print_trails_with_activity",
       "print_trails_with_unsupported_activity", "export_trails_to_csv" >>

\* The statement after stmt; the try block ends after the last one.
NextStep(stmt) ==
    LET i == CHOOSE k \in 1..Len(Program) : Program[k] = stmt IN
    IF i = Len(Program) THEN "done" ELSE Program[i + 1]

\* The texts of the print calls.
CountTexts ==
    << "number of Trail items: ", "number of multitrail items: ",
       "number of hiking trail items: ", "number of bicycle trail items: ",
       "number of riding trail items: ", "number of running trail items: ",
       "number of trail items without activity: ",
       "number of trail items with activity: ",
       "number of trail items with unsupported activity: " >>

CountLine(text, n) == [kind |-> "count", text |-> text, n |-> n]
ErrorLine(text, e) == [kind |-> "error", text |-> text \o e, n |-> 0]
InfoLine(text) == [kind |-> "info", text |-> text, n |-> 0]

fieldnames ==
    <<"title", "number", "activity_key", "multitrail", "length", "url", "gpx">>

NoFile == [exists |-> FALSE, lines |-> <<>>]

\* A trails.csv left by an earlier run.
OldFile ==
    [exists |-> TRUE,
     lines |-> << [header |-> fieldnames],
                  [row |-> [title |-> Str(<<"O">>), number |-> EmptyStr,
                            activity_key |-> EmptyStr,
                            multitrail |-> Bool(FALSE), length |-> 1,
                            url |-> "https://www.aretrails.com/trail/old",
                            gpx |-> "old"]] >>]

\* AreTrailsData(language="", items=[]) has been constructed.
Init ==
    /\ response \in Responses
    /\ oldfile \in {NoFile, OldFile}
    /\ pc = Program[1]
    /\ data = Null
    /\ items = <<>>
    /\ console = <<>>
    /\ csvfile = oldfile
    /\ exc = "none"

\* The statement at pc raises e: control passes to the except clauses.
Raise(e) == pc' = "except" /\ exc' = e

\* response.raise_for_status() left out.
raise_for_status_never(status) == FALSE

\* response.raise_for_status() raises HTTPError.
raise_for_status(status) == 400 <= status /\ status < 600

\* atd.fetch_aretrails_json().  A body that is not JSON raises
\* requests.exceptions.JSONDecodeError, a RequestException, or (requests
\* before 2.27) a plain ValueError, depending on the installed library.
Fetch ==
    /\ pc = "fetch_aretrails_json"
    /\ IF response.status = 0
         THEN Raise("ConnectionError") /\ UNCHANGED data
       ELSE IF raise_for_status(response.status)
         THEN Raise("HTTPError") /\ UNCHANGED data
       ELSE IF ~response.json
         THEN /\ \E e \in {"JSONDecodeError", "ValueError"} : Raise(e)
              /\ UNCHANGED data
       ELSE /\ data' = response.value
            /\ pc' = NextStep(pc)
            /\ UNCHANGED exc
    /\ UNCHANGED <<response, oldfile, items, console, csvfile>>

\* [TrailItem(**item) for item in raws], when every element validates.
Constructed(raws) ==
    LET built[k \in 0..Len(raws)] ==
            IF k = 0 THEN <<>> ELSE Append(built[k - 1], TrailItem(raws[k]))
    IN built[Len(raws)]

\* self.items filled by appending in a loop: the elements before the first
\* one that does not validate stay in the list.
ItemsAfterParseLoop(old, raws) ==
    LET built[k \in 0..Len(raws)] ==
            IF k = 0 THEN <<>>
            ELSE IF Constructible(raws[k]) /\ Len(built[k - 1]) = k - 1
                 THEN Append(built[k - 1], TrailItem(raws[k]))
                 ELSE built[k - 1]
    IN built[Len(raws)]

\* self.items after `self.items = [TrailItem(**item) for item in raws]`:
\* the assignment happens only if the comprehension has not raised.
ItemsAfterParse(old, raws) ==
    IF \A i \in 1..Len(raws) : Constructible(raws[i])
    THEN Constructed(raws) ELSE old

\* atd.parse_items()
ParseItems ==
    /\ pc = "parse_items"
    /\ LET raws == Subscript(data, "items") IN
       IF ~raws.ok
         THEN Raise(raws.exc) /\ UNCHANGED items
       ELSE /\ items' = ItemsAfterParse(items, raws.v.l)
            /\ IF \A i \in 1..Len(raws.v.l) : Constructible(raws.v.l[i])
                 THEN pc' = NextStep(pc) /\ UNCHANGED exc
                 ELSE Raise("ValidationError")
    /\ UNCHANGED <<response, oldfile, data, console, csvfile>>

\* print(f"<text>{len(<view>)}"), r the outcome of reading the view.
PrintCount(stmt, text, r) ==
    /\ pc = stmt
    /\ IF r.ok
         THEN /\ console' = Append(console, CountLine(text, Len(r.v)))
              /\ pc' = NextStep(pc)
              /\ UNCHANGED exc
         ELSE Raise(r.exc) /\ UNCHANGED console
    /\ UNCHANGED <<response, oldfile, data, items, csvfile>>

PrintTrails == PrintCount("print_trails", CountTexts[1], trails(items))

PrintMultitrails ==
    PrintCount("print_multitrails", CountTexts[2], multitrails(items))

PrintHikingTrails ==
    PrintCount("print_hiking_trails", CountTexts[3], hiking_trails(items))

PrintBicycleTrails ==
    PrintCount("print_bicycle_trails", CountTexts[4], bicycle_trails(items))

PrintRidingTrails ==
    PrintCount("print_riding_trails", CountTexts[5], riding_trails(items))

PrintRunningTrails ==
    PrintCount("print_running_trails", CountTexts[6], running_trails(items))

PrintTrailsWithoutActivity ==
    PrintCount("print_trails_without_activity", CountTexts[7],
               trails_without_activity(items))

PrintTrailsWithActivity ==
    PrintCount("print_trails_with_activity", CountTexts[8],
               trails_with_activity(items))

PrintTrailsWithUnsupportedActivity ==
    PrintCount("print_trails_with_unsupported_activity", CountTexts[9],
               trails_with_unsupported_activity(items))

\* The dictionary handed to writer.writerow for one trail; its values are
\* computed in the order of the text and the first one that raises ends it.
RowOf(trail) ==
    LET t == title(trail)
        n == number(trail)
        k == activity_key(trail)
        m == is_multitrail(trail)
        l == length(trail)
    IN IF ~t.ok THEN t
       ELSE IF ~n.ok THEN n
       ELSE IF ~k.ok THEN k
       ELSE IF ~m.ok THEN m
       ELSE IF ~l.ok THEN l
       ELSE Ok([title |-> t.v, number |-> n.v, activity_key |-> k.v,
                multitrail |-> m.v, length |-> l.v, url |-> url(trail),
                gpx |-> gpx_url(trail)])

\* The rows written for the trails ts, up to the first one that raises.
RowsWritten(ts) ==
    LET w[k \in 0..Len(ts)] ==
            IF k = 0 THEN <<>>
            ELSE IF Len(w[k - 1]) = k - 1 /\ RowOf(ts[k]).ok
                 THEN Append(w[k - 1], [row |-> RowOf(ts[k]).v])
                 ELSE w[k - 1]
    IN w[Len(ts)]

\* open(filename, mode="a"): the lines of the file are kept.
OpenAppend(file) == file.lines

\* open(filename, mode="w"): the file is created or truncated.
OpenWrite(file) == <<>>

\* atd.export_trails_to_csv().  open() may fail (OSError: no permission,
\* read-only directory) and then leaves the file alone.  The file is modelled
\* by its rows, each the dictionary the writer was given.
ExportTrailsToCsv ==
    /\ pc = "export_trails_to_csv"
    /\ \E opens \in BOOLEAN :
         IF ~opens
           THEN Raise("OSError") /\ UNCHANGED <<csvfile, console>>
         ELSE LET ts == trails(items).v
                  rows == RowsWritten(ts)
              IN /\ csvfile' =
                      [exists |-> TRUE,
                       lines |-> OpenWrite(csvfile)
                                   \o <<[header |-> fieldnames]>> \o rows]
                 /\ IF Len(rows) = Len(ts)
                      THEN /\ console' = Append(console,
                                  InfoLine("Trail items exported successfully to 'trails.csv'."))
                           /\ pc' = NextStep(pc)
                           /\ UNCHANGED exc
                      ELSE /\ Raise(RowOf(ts[Len(rows) + 1]).exc)
                           /\ UNCHANGED console
    /\ UNCHANGED <<response, oldfile, data, items>>

\* The classes caught by `except requests.exceptions.RequestException`, with
\* ConnectionError forgotten.
RequestExceptionsHttpOnly == {"HTTPError", "JSONDecodeError"}

\* The subclasses of requests.exceptions.RequestException among the
\* exceptions raised above.
RequestExceptions == {"HTTPError", "ConnectionError", "JSONDecodeError"}

\* except requests.exceptions.RequestException as e
ExceptRequestException ==
    /\ pc = "except"
    /\ exc \in RequestExceptions
    /\ console' = Append(console, ErrorLine("Error fetching data: ", exc))
    /\ pc' = "done"
    /\ UNCHANGED <<response, oldfile, data, items, csvfile, exc>>

\* except Exception as e
ExceptException ==
    /\ pc = "except"
    /\ exc \notin RequestExceptions
    /\ console' = Append(console, ErrorLine("Unexpected error: ", exc))
    /\ pc' = "done"
    /\ UNCHANGED <<response, oldfile, data, items, csvfile, exc>>

Next ==
    \/ Fetch
    \/ ParseItems
    \/ PrintTrails
    \/ PrintMultitrails
    \/ PrintHikingTrails
    \/ PrintBicycleTrails
    \/ PrintRidingTrails
    \/ PrintRunningTrails
    \/ PrintTrailsWithoutActivity
    \/ PrintTrailsWithActivity
    \/ PrintTrailsWithUnsupportedActivity
    \/ ExportTrailsToCsv
    \/ ExceptRequestException
    \/ ExceptException

Spec == Init /\ [][Next]_vars

\* The interpreter executes the next statement; the GET returns or fails.
FairSpec == Spec /\ WF_vars(Next)

----------------------------------------------------------------------------
\* Properties.

\* C1, as stated: every trail of items is listed by exactly one of
\* trails_with_activity and trails_without_activity, whatever its content
\* (a view that raises lists nothing).
C1_PartitionWhateverContent ==
    LET w == trails_with_activity(items)
        wo == trails_without_activity(items)
    IN \A i \in 1..Len(items) :
          items[i].objectClass = "trail" =>
             ((w.ok /\ \E j \in 1..Len(w.v) : w.v[j] = items[i])
                # (wo.ok /\ \E j \in 1..Len(wo.v) : wo.v[j] = items[i]))

\* C1, amended: when the content of every trail is a non-empty mapping, the
\* two views return lists of trails that between them hold every trail
\* exactly once (a trail whose content.activity is null counts as having an
\* activity); when some trail's content is anything else, both views raise.
C1_PartitionWhenContentPresent ==
    LET w == trails_with_activity(items)
        wo == trails_without_activity(items)
        ts == SelectSeq(items, LAMBDA x : x.objectClass = "trail")
    IN IF \A i \in 1..Len(ts) :
             ts[i].content.t = "map" /\ DOMAIN ts[i].content.m # {}
       THEN /\ w.ok /\ wo.ok
            /\ Len(w.v) + Len(wo.v) = Len(ts)
            /\ \A j \in 1..Len(w.v) : w.v[j].objectClass = "trail"
            /\ \A j \in 1..Len(wo.v) : wo.v[j].objectClass = "trail"
            /\ \A i \in 1..Len(ts) :
                  (\E j \in 1..Len(w.v) : w.v[j] = ts[i])
                     # (\E j \in 1..Len(wo.v) : wo.v[j] = ts[i])
            /\ \A i \in 1..Len(ts) :
                  (\E j \in 1..Len(w.v) : w.v[j] = ts[i])
                     <=> ~( "activity" \in DOMAIN ts[i].content.m
                              => /\ ts[i].content.m.activity.t = "map"
                                 /\ DOMAIN ts[i].content.m.activity.m = {} )
       ELSE ~w.ok /\ ~wo.ok

\* Both counts were printed and are positive, and one trail has a null
\* activity.
C1_Witness ==
    /\ \E i \in 1..Len(console) :
          /\ console[i].text = "number of trail items with activity: "
          /\ console[i].n >= 1
    /\ \E i \in 1..Len(console) :
          /\ console[i].text = "number of trail items without activity: "
          /\ console[i].n >= 1
    /\ \E i \in 1..Len(items) :
          /\ items[i].objectClass = "trail"
          /\ items[i].content.t = "map"
          /\ "activity" \in DOMAIN items[i].content.m
          /\ items[i].content.m.activity = Null

\* C2: an item whose objectClass is not "trail" is listed by none of the
\* nine filtered views.
C2_NonTrailsExcluded ==
    LET views == << trails(items), multitrails(items), riding_trails(items),
                    bicycle_trails(items), hiking_trails(items),
                    running_trails(items), trails_with_activity(items),
                    trails_without_activity(items),
                    trails_with_unsupported_activity(items) >>
    IN \A i \in 1..Len(items) :
          items[i].objectClass # "trail" =>
             \A v \in 1..Len(views) :
                views[v].ok =>
                   \A j \in 1..Len(views[v].v) : views[v].v[j] # items[i]

\* A run over a trail and a non-trail has printed every count and exported.
C2_Witness ==
    /\ pc = "done" /\ exc = "none"
    /\ \E i \in 1..Len(items) : items[i].objectClass # "trail"
    /\ \E i \in 1..Len(items) : items[i].objectClass = "trail"

\* C3: when the GET gets no response or a status other than success, the
\* run prints an error and nothing else, never gets past the fetch, parses
\* nothing and leaves trails.csv as it found it.
C3_FetchFailureWritesNothing ==
    response.status # 200 =>
       /\ pc \in {"fetch_aretrails_json", "except", "done"}
       /\ data = Null
       /\ items = <<>>
       /\ csvfile = oldfile
       /\ \A i \in 1..Len(console) : console[i].kind = "error"
       /\ pc = "done" => Len(console) = 1

\* A 403 whose body is a well-formed payload with items has been reported.
C3_Witness ==
    /\ pc = "done"
    /\ response.status = 403
    /\ response.json
    /\ Len(console) = 1
    /\ console[1].text = "Error fetching data: HTTPError"

\* C4: parse_items either raises and leaves items as it was (some element
\* lacks id, objectClass or networkId) or leaves in items one TrailItem per
\* raw element, in source order.
C4_ParseAllOrNothing ==
    [][ (pc = "parse_items" /\ data.t = "map" /\ "items" \in DOMAIN data.m) =>
          LET raws == data.m.items.l IN
          IF \E i \in 1..Len(raws) :
                ~({"id", "objectClass", "networkId"} \subseteq DOMAIN raws[i])
          THEN items' = items /\ pc' = "except" /\ exc' = "ValidationError"
          ELSE /\ pc' = "print_trails" /\ exc' = exc
               /\ Len(items') = Len(raws)
               /\ \A i \in 1..Len(raws) :
                     /\ items'[i].id = raws[i].id
                     /\ items'[i].objectClass = raws[i].objectClass
                     /\ items'[i].networkId = raws[i].networkId
                     /\ items'[i].content = raws[i].content
                     /\ items'[i].properties = raws[i].properties
      ]_vars

\* parse_items has raised on the second of two elements, the first of which
\* validates.
C4_Witness ==
    /\ exc = "ValidationError"
    /\ items = <<>>
    /\ Len(data.m.items.l) = 2
    /\ {"id", "objectClass", "networkId"} \subseteq DOMAIN data.m.items.l[1]

\* C5, as stated: no count line is printed before export_trails_to_csv has
\* finished (it finishes by printing its success line).
C5_CountsAfterExport ==
    \A i \in 1..Len(console) :
       console[i].kind = "count" =>
          \E j \in 1..(i - 1) : console[j].kind = "info"

\* C5, amended: the count lines are printed in the stated order, only after
\* the fetch and the parse have completed, and before the export: the file
\* is written, and the export's success line printed, only after all nine.
C5_CountsInOrderBeforeExport ==
    LET counts == SelectSeq(console, LAMBDA l : l.kind = "count")
        order == << "number of Trail items: ",
                    "number of multitrail items: ",
                    "number of hiking trail items: ",
                    "number of bicycle trail items: ",
                    "number of riding trail items: ",
                    "number of running trail items: ",
                    "number of trail items without activity: ",
                    "number of trail items with activity: ",
                    "number of trail items with unsupported activity: " >>
    IN /\ Len(counts) <= 9
       /\ \A i \in 1..Len(counts) : counts[i].text = order[i]
       /\ counts # <<>> =>
             /\ pc \notin {"fetch_aretrails_json", "parse_items"}
             /\ data = response.value
             /\ Len(items) = Len(data.m.items.l)
       /\ (csvfile # oldfile \/ \E j \in 1..Len(console) :
                                   console[j].kind = "info") =>
             /\ Len(counts) = 9
             /\ \A i \in 1..9 : console[i].kind = "count"

\* A run without error: nine counts, then the export's line.
C5_Witness ==
    /\ pc = "done" /\ exc = "none"
    /\ Len(console) = 10
    /\ console[9].kind = "count"
    /\ console[10].kind = "info"
    /\ Len(items) >= 1

\* C6, as stated: trails_with_unsupported_activity is the empty list whatever
\* the content and activity of the trails.
C6_UnsupportedAlwaysEmptyList ==
    trails_with_unsupported_activity(items) = Ok(<<>>)

\* C6, amended: trails_with_unsupported_activity never lists an item.  It is
\* the empty list when every trail has an activity key to test (its content
\* is a non-empty mapping whose activity is missing, null, or a mapping
\* whose key is missing or a string), and it raises when some trail's
\* content is None or empty.
C6_UnsupportedNeverLists ==
    LET u == trails_with_unsupported_activity(items)
        ts == SelectSeq(items, LAMBDA x : x.objectClass = "trail")
        keyed(c) ==
            /\ c.t = "map" /\ DOMAIN c.m # {}
            /\ "activity" \in DOMAIN c.m =>
                  \/ c.m.activity.t = "null"
                  \/ /\ c.m.activity.t = "map"
                     /\ "key" \in DOMAIN c.m.activity.m =>
                           c.m.activity.m.key.t = "str"
    IN /\ u.ok => u.v = <<>>
       /\ (\A i \in 1..Len(ts) : keyed(ts[i].content)) => u.ok
       /\ (\E i \in 1..Len(ts) :
              \/ ts[i].content.t = "null"
              \/ ts[i].content.t = "map" /\ DOMAIN ts[i].content.m = {}) =>
             ~u.ok

\* The count of unsupported trails was printed as 0 although one trail's
\* key, "ski", names none of the four activities.
C6_Witness ==
    /\ \E i \in 1..Len(console) :
          /\ console[i].text =
                "number of trail items with unsupported activity: "
          /\ console[i].n = 0
    /\ \E i \in 1..Len(items) :
          /\ items[i].objectClass = "trail"
          /\ items[i].content = ContentSki

\* C7: length is 0, and does not raise, when trailDistanceMeter is absent
\* from properties, zero or null; for any other number it is the number's
\* integer part.
C7_LengthZeroWhenAbsentOrFalsy ==
    \A i \in 1..Len(items) :
       LET p == items[i].properties IN
       p.t = "map" =>
          IF "trailDistanceMeter" \notin DOMAIN p.m
          THEN length(items[i]) = Ok(0)
          ELSE LET d == p.m.trailDistanceMeter IN
               /\ d.t = "null" => length(items[i]) = Ok(0)
               /\ d.t = "num" =>
                     length(items[i]) =
                        Ok(IF d.n >= 0 THEN d.n \div 10 ELSE -((-d.n) \div 10))

\* C8: after a successful export trails.csv holds the header row and then
\* one row per trail of items, in the order of items, and nothing else:
\* nothing of the file's previous contents and no row of a non-trail.
C8_ExportWritesHeaderAndTrailRows ==
    (\E i \in 1..Len(console) : console[i].kind = "info") =>
       LET ts == SelectSeq(items, LAMBDA x : x.objectClass = "trail") IN
       /\ csvfile.exists
       /\ Len(csvfile.lines) = 1 + Len(ts)
       /\ csvfile.lines[1] =
             [header |-> << "title", "number", "activity_key", "multitrail",
                            "length", "url", "gpx" >>]
       /\ \A k \in 1..Len(ts) :
             /\ DOMAIN csvfile.lines[k + 1] = {"row"}
             /\ csvfile.lines[k + 1].row.url =
                   "https://www.aretrails.com/trail/" \o ts[k].id
             /\ csvfile.lines[k + 1].row.title = ts[k].content.m.title

\* Two different trails were exported over an existing file.
C8_Witness ==
    /\ \E i \in 1..Len(console) : console[i].kind = "info"
    /\ oldfile.exists
    /\ Len(items) = 2
    /\ items[1].objectClass = "trail" /\ items[2].objectClass = "trail"
    /\ items[1].id = "t2" /\ items[2].id = "t1"

\* C9: every run ends; when a statement of the try block raises, no later
\* statement of the block runs, exactly one error line is printed (the
\* transport message for a request error, the generic one otherwise) and the
\* run ends normally after it.
C9_RunEndsWithOneErrorLine ==
    /\ <>(pc = "done")
    /\ [](pc = "done" /\ exc # "none" =>
             /\ Len(console) >= 1
             /\ \A i \in 1..Len(console) :
                   console[i].kind = "error" <=> i = Len(console)
             /\ console[Len(console)].text =
                   IF exc \in {"HTTPError", "ConnectionError",
                               "JSONDecodeError"}
                   THEN "Error fetching data: " \o exc
                   ELSE "Unexpected error: " \o exc)
    /\ [][ /\ pc = "except" =>
                /\ pc' = "done"
                /\ Len(console') = Len(console) + 1
                /\ UNCHANGED <<data, items, csvfile, exc>>
           /\ pc = "done" => UNCHANGED vars
           /\ exc' # exc => exc = "none" /\ pc' = "except" ]_vars

\* A count could not be computed: one count line, then the generic message.
C9_Witness ==
    /\ pc = "done"
    /\ exc = "KeyError"
    /\ Len(console) = 2
    /\ console[1].kind = "count"
    /\ console[2].text = "Unexpected error: KeyError"

\* C10: the views read the derived accessors of trails only.  Dropping the
\* non-trail items changes the outcome of no view, and without any trail all
\* views are empty lists, whatever the non-trails contain; a trail whose
\* content is None or empty makes trails_with_activity,
\* trails_without_activity, hiking_trails, riding_trails, running_trails and
\* trails_with_unsupported_activity raise.
C10_OnlyTrailsAreRead ==
    LET ts == SelectSeq(items, LAMBDA x : x.objectClass = "trail")
        views(s) == << trails(s), multitrails(s), riding_trails(s),
                       bicycle_trails(s), hiking_trails(s), running_trails(s),
                       trails_with_activity(s), trails_without_activity(s),
                       trails_with_unsupported_activity(s) >>
        all == views(items)
    IN /\ all = views(ts)
       /\ ts = <<>> => \A v \in 1..9 : all[v] = Ok(<<>>)
       /\ (\E i \in 1..Len(ts) :
              \/ ts[i].content.t = "null"
              \/ ts[i].content.t = "map" /\ DOMAIN ts[i].content.m = {}) =>
             /\ ~all[7].ok /\ ~all[8].ok
             /\ ~all[5].ok /\ ~all[3].ok /\ ~all[6].ok
             /\ ~all[9].ok

\* A non-trail without content and without isMultiTrail went through the
\* first two counts; the trail without content after it made the third fail.
C10_Witness ==
    /\ pc = "done"
    /\ exc = "ValueError"
    /\ Len(items) = 2
    /\ items[1].objectClass # "trail"
    /\ items[1].content = Null
    /\ items[1].properties = EmptyDict
    /\ items[2].objectClass = "trail"
    /\ items[2].content = Null
    /\ Len(console) = 3

====
